---- MODULE Spec2Model ----
(***************************************************************************)
(* A model of the diii device link:                                        *)
(*   - WebSocketSerialThreaded (websocketserial.py), the transport bridge: *)
(*     two queues, an I/O thread running a sender and a receiver pump;     *)
(*   - Deviceviii (viii.py), the link: connect/reconnect/disconnect, the   *)
(*     write path (writebin/write/writeline/writefile/_upload), the read   *)
(*     pump read_forever and the tokenizer process_line.                   *)
(* Text is a sequence of code points, bytes are sequences of 0..255.       *)
(***************************************************************************)
EXTENDS Integers, Sequences, FiniteSets, TLC

\* ------------------------------------------------------------------ bounds
\* Number of bridge objects the link may construct (calls of connect()).
MaxBridges == 2
\* Messages the remote end sends, over all connections.
MaxRecv == 2
\* Calls the shell makes on the link (the read pump's iterations not counted).
MaxCalls == 2
\* Longest text drawn for write()/writeline() in SessionSpec.
MaxLen == 66
\* Calls a client makes on a bridge it holds itself, in BridgeSpec.
MaxOps == 4
\* Calls made on the dispatcher (raise_event, replace_handlers), in DispatchSpec.
MaxDispatch == 4
\* Longest line drawn for the tokenizer in TokenSpec.
MaxLine == 6

\* ------------------------------------------------------- program constants
\* viii.py:71   if len(b) % 64 == 0
PacketSize == 64
\* viii.py:120  self.read(10000)
ReadCount == 10000

Bridges == 1..MaxBridges
\* connect() opens every bridge it constructs once: one I/O thread per bridge
Threads == 1..MaxBridges

\* ------------------------------------------------------------ text helpers
LF == 10
CR == 13
Caret == 94
LParen == 40
RParen == 41
Comma == 44

\* '\r\n', the terminator writeline appends (viii.py:80)
CRLF == <<CR, LF>>
\* '\n\r', the separator read_forever splits on (viii.py:123)
LFCR == <<LF, CR>>
\* '^^'
Marker == <<Caret, Caret>>
\* '^^s', '^^z', '^^e', '^^w'
MarkS == <<Caret, Caret, 115>>
MarkZ == <<Caret, Caret, 122>>
MarkE == <<Caret, Caret, 101>>
MarkW == <<Caret, Caret, 119>>

\* str.isspace() for the code points below 256
IsSpace(c) == c \in {9, 10, 11, 12, 13, 28, 29, 30, 31, 32, 133, 160}

\* One code point as UTF-8 (str.encode('utf-8'))
EncodeChar(c) ==
    IF c < 128 THEN <<c>>
    ELSE IF c < 2048 THEN <<192 + (c \div 64), 128 + (c % 64)>>
    ELSE <<224 + (c \div 4096), 128 + ((c \div 64) % 64), 128 + (c % 64)>>

RECURSIVE Encode(_)
Encode(s) == IF s = <<>> THEN <<>> ELSE EncodeChar(Head(s)) \o Encode(Tail(s))

IsCont(b) == b >= 128 /\ b < 192

\* bytes.decode('utf-8'): the code points, or <<-1>> for UnicodeDecodeError
DecodeError == <<-1>>

\* the length of the run made of the lead byte at i and the continuation
\* bytes that follow it (4 stands for any longer run: no character)
RunLen(bs, i) ==
    LET cont(k) == i + k <= Len(bs) /\ IsCont(bs[i + k])
    IN  IF ~cont(1) THEN 1 ELSE IF ~cont(2) THEN 2 ELSE IF ~cont(3) THEN 3 ELSE 4

\* the code point of the character that starts at byte i and has len bytes,
\* -1 when those bytes are no character (stray or missing continuation
\* bytes, an overlong form, a surrogate, a lead byte outside the ranges)
CodePoint(bs, i, len) ==
    LET b1 == bs[i]
    IN  IF b1 < 128 /\ len = 1 THEN b1
        ELSE IF b1 >= 194 /\ b1 < 224 /\ len = 2
             THEN (b1 - 192) * 64 + (bs[i + 1] - 128)
        ELSE IF b1 >= 224 /\ b1 < 240 /\ len = 3
             THEN LET c == (b1 - 224) * 4096 + (bs[i + 1] - 128) * 64 + (bs[i + 2] - 128)
                  IN  IF c < 2048 \/ (c >= 55296 /\ c < 57344) THEN -1 ELSE c
        ELSE -1

\* byte by byte: the code point of the character a lead byte starts (-1 when
\* it starts none), -2 for a continuation byte
IsLead(c) == c # -2
DecodeBytes(bs) ==
    [i \in 1..Len(bs) |-> IF IsCont(bs[i]) THEN -2 ELSE CodePoint(bs, i, RunLen(bs, i))]

Decode(bs) ==
    IF bs = <<>> THEN <<>>
    ELSE IF IsCont(bs[1]) \/ SelectSeq(DecodeBytes(bs), LAMBDA c : c = -1) # <<>> THEN DecodeError
    ELSE SelectSeq(DecodeBytes(bs), IsLead)

\* str.rstrip(): trailing whitespace removed
RECURSIVE Rstrip(_)
Rstrip(s) ==
    IF s = <<>> THEN <<>>
    ELSE IF IsSpace(s[Len(s)]) THEN Rstrip(SubSeq(s, 1, Len(s) - 1))
    ELSE s

\* str.rstrip(')'): trailing close-parentheses removed
RECURSIVE RstripParen(_)
RstripParen(s) ==
    IF s = <<>> THEN <<>>
    ELSE IF s[Len(s)] = RParen THEN RstripParen(SubSeq(s, 1, Len(s) - 1))
    ELSE s

StartsWith(s, p) == Len(s) >= Len(p) /\ SubSeq(s, 1, Len(p)) = p

\* sep in s
Contains(s, sep) == \E i \in 1..(Len(s) - Len(sep) + 1) : SubSeq(s, i, i + Len(sep) - 1) = sep

\* index of the first occurrence of sep in s, 0 when there is none
Find(s, sep) ==
    IF Contains(s, sep)
    THEN CHOOSE i \in 1..(Len(s) - Len(sep) + 1) :
            /\ SubSeq(s, i, i + Len(sep) - 1) = sep
            /\ \A j \in 1..(i - 1) : SubSeq(s, j, j + Len(sep) - 1) # sep
    ELSE 0

\* str.split(sep): the segments between occurrences of sep, left to right
RECURSIVE Split(_, _)
Split(s, sep) ==
    LET i == Find(s, sep)
    IN  IF i = 0 THEN <<s>>
        ELSE <<SubSeq(s, 1, i - 1)>> \o Split(SubSeq(s, i + Len(sep), Len(s)), sep)

\* str.partition('('): <<before, sep, after>>
Partition(s, ch) ==
    LET i == Find(s, <<ch>>)
    IN  IF i = 0 THEN <<s, <<>>, <<>>>>
        ELSE <<SubSeq(s, 1, i - 1), <<ch>>, SubSeq(s, i + 1, Len(s))>>

RECURSIVE Flatten(_)
Flatten(chunks) == IF chunks = <<>> THEN <<>> ELSE Head(chunks) \o Flatten(Tail(chunks))

\* ------------------------------------------------------------------ events
\* One call of raise_event(event, *args)
Event(name, args) == [name |-> name, args |-> args]

\* Deviceviii.process_line: the events it raises for one line, in order
SegmentEvents(line, cmd) ==
    LET t3 == Partition(Rstrip(cmd), LParen)
    IN  IF t3[1] = <<>> /\ t3[2] = <<>> /\ t3[3] = <<>> THEN <<>>
        ELSE <<Event("iii_event", <<line, t3[1], Split(RstripParen(t3[3]), <<Comma>>)>>)>>

RECURSIVE SegmentsEvents(_, _)
SegmentsEvents(line, cmds) ==
    IF cmds = <<>> THEN <<>>
    ELSE SegmentEvents(line, Head(cmds)) \o SegmentsEvents(line, Tail(cmds))

\* a tokenizer that strips the line it passes on
process_line_stripped(line) ==
    IF Contains(line, Marker) THEN SegmentsEvents(line, Split(line, Marker))
    ELSE IF Len(Rstrip(line)) > 0 THEN <<Event("iii_output", <<Rstrip(line)>>)>>
    ELSE <<>>

process_line(line) ==
    IF Contains(line, Marker) THEN SegmentsEvents(line, Split(line, Marker))
    ELSE IF Len(line) > 0 THEN <<Event("iii_output", <<line>>)>>
    ELSE <<>>

RECURSIVE ProcessLines(_)
ProcessLines(lines) ==
    IF lines = <<>> THEN <<>> ELSE process_line(Head(lines)) \o ProcessLines(Tail(lines))

\* ------------------------------------------------------------- environment
\* The file system seen by open(fname).readlines(): each path is missing or
\* holds raw lines, every line with its '\n'.
Line62 == [i \in 1..62 |-> 97]
Paths == {"missing", "two"}
SessionPaths == {"missing", "empty", "two", "pad"}
FileExists(path) == path # "missing"
FileLines(path) ==
    CASE path = "two" -> << <<108, 49, 32, LF>>, <<108, 50, LF>> >>
      [] path = "pad" -> << Line62 \o <<LF>> >>
      [] OTHER -> << >>

\* What the remote end may send: text frames (str) and binary frames (bytes)
WireMsgs ==
    { [kind |-> "str", val |-> <<104, 233, LF, CR>>],
      [kind |-> "bytes", val |-> <<255>>] }

\* Texts the shell sends with writeline / write
CmdTexts == { <<Caret, Caret, 112>> }
\* 'a', e-acute and the euro sign: one, two and three bytes of UTF-8
TextChars == {97, 233, 8364}
Texts == {[i \in 1..n |-> c] : n \in 0..MaxLen, c \in TextChars}

\* ------------------------------------------------------------------- state
VARIABLES
    \* WebSocketSerialThreaded, per bridge object
    is_open, thread, stop_event, event_loop, read_queue, write_queue,
    \* the I/O threads: the bridge each serves, its place in
    \* _run_websocket_loop, the two pumps, the websocket connection
    tBridge, ioPc, senderPc, receiverPc, conn,
    \* Deviceviii
    serial, is_connected,
    \* the consumer-side thread: where it is and the call in progress
    mainPc, op, calls,
    \* the read_forever task: "running", or "exited" once an exception has
    \* left its loop
    pumpPc,
    \* observations: chunks accepted by write, chunks passed to
    \* websocket.send, chunks received from the wire (per bridge); events
    \* raised and chunks enqueued since the last shell call or reconnect
    \* attempt began
    written, passed, arrived, raised, opWrites,
    \* the bytes the bridge's read() has returned so far (per bridge)
    returned,
    \* Deviceviii.event_handlers, and what the dispatcher has done: the
    \* tables installed and the subscribers invoked, in order
    event_handlers, dispatched

bridgeVars == <<is_open, thread, stop_event, event_loop, read_queue, write_queue>>
threadVars == <<tBridge, ioPc, senderPc, receiverPc, conn>>
linkVars == <<serial, is_connected, mainPc, op, calls, pumpPc>>
obsVars == <<written, passed, arrived, raised, opWrites, returned, event_handlers, dispatched>>
vars == <<bridgeVars, threadVars, linkVars, obsVars>>

\* Deviceviii.__init__, line 20: the empty handler table
NoHandlers == [e \in {} |-> <<>>]

NoOp ==
    [kind |-> "none", fname |-> "", event |-> "", end |-> <<>>, err_event |-> FALSE,
     was_connected |-> FALSE, idx |-> 0, result |-> "ok", data |-> <<>>]

\* WebSocketSerialThreaded.__init__ for every bridge, Deviceviii.__init__
Init ==
    /\ is_open = [b \in Bridges |-> FALSE]
    /\ thread = [b \in Bridges |-> 0]
    /\ stop_event = [b \in Bridges |-> FALSE]
    /\ event_loop = [b \in Bridges |-> 0]
    /\ read_queue = [b \in Bridges |-> <<>>]
    /\ write_queue = [b \in Bridges |-> <<>>]
    /\ tBridge = [t \in Threads |-> 0]
    /\ ioPc = [t \in Threads |-> "none"]
    /\ senderPc = [t \in Threads |-> "none"]
    /\ receiverPc = [t \in Threads |-> "none"]
    /\ conn = [t \in Threads |-> "none"]
    /\ serial = 0
    /\ is_connected = FALSE
    /\ mainPc = "idle"
    /\ op = NoOp
    /\ calls = 0
    /\ pumpPc = "running"
    /\ written = [b \in Bridges |-> <<>>]
    /\ passed = [b \in Bridges |-> <<>>]
    /\ arrived = [b \in Bridges |-> <<>>]
    /\ returned = [b \in Bridges |-> <<>>]
    /\ event_handlers = NoHandlers
    /\ dispatched = <<>>
    /\ raised = <<>>
    /\ opWrites = <<>>

\* the next thread to start
NextThread == Cardinality({t \in Threads : ioPc[t] # "none"}) + 1

\* ---------------------------------------------- the bridge's I/O thread
\* _run_websocket_loop, lines 87-89: the thread creates its event loop
ThreadInit(t) ==
    /\ ioPc[t] = "start"
    /\ ioPc' = [ioPc EXCEPT ![t] = "connecting"]
    /\ event_loop' = [event_loop EXCEPT ![tBridge[t]] = t]
    /\ UNCHANGED <<is_open, thread, stop_event, read_queue, write_queue>>
    /\ UNCHANGED <<tBridge, senderPc, receiverPc, conn>>
    /\ UNCHANGED <<linkVars, obsVars>>

\* websocket_handler, lines 34-37 and 81-85: websockets.connect succeeds
\* (is_open becomes true, the pumps start) or raises (finally: is_open false)
ThreadConnect(t) ==
    /\ ioPc[t] = "connecting"
    /\ \E ok \in BOOLEAN :
        IF ok
        THEN /\ conn' = [conn EXCEPT ![t] = "up"]
             /\ is_open' = [is_open EXCEPT ![tBridge[t]] = TRUE]
             /\ ioPc' = [ioPc EXCEPT ![t] = "running"]
             /\ senderPc' = [senderPc EXCEPT ![t] = "get"]
             /\ receiverPc' = [receiverPc EXCEPT ![t] = "check"]
        ELSE /\ is_open' = [is_open EXCEPT ![tBridge[t]] = FALSE]
             /\ ioPc' = [ioPc EXCEPT ![t] = "finished"]
             /\ UNCHANGED <<conn, senderPc, receiverPc>>
    /\ UNCHANGED <<thread, stop_event, event_loop, read_queue, write_queue, tBridge>>
    /\ UNCHANGED <<linkVars, obsVars>>

\* sender(), lines 40-55: one turn of the loop. The stop signal ends it; an
\* empty queue sends it to sleep; otherwise the head chunk is taken off the
\* queue and passed to websocket.send, which raises on a closed connection.
SenderTurn(t) ==
    LET b == tBridge[t]
    IN  /\ ioPc[t] = "running"
        /\ senderPc[t] = "get"
        /\ IF stop_event[b]
           THEN /\ senderPc' = [senderPc EXCEPT ![t] = "done"]
                /\ UNCHANGED <<write_queue, passed>>
           ELSE IF write_queue[b] = <<>>
           THEN /\ senderPc' = [senderPc EXCEPT ![t] = "sleep"]
                /\ UNCHANGED <<write_queue, passed>>
           ELSE /\ write_queue' = [write_queue EXCEPT ![b] = Tail(@)]
                /\ passed' = [passed EXCEPT ![b] = Append(@, Head(write_queue[b]))]
                /\ senderPc' = [senderPc EXCEPT ![t] = IF conn[t] = "up" THEN "get" ELSE "done"]
        /\ UNCHANGED <<is_open, thread, stop_event, event_loop, read_queue>>
        /\ UNCHANGED <<tBridge, ioPc, receiverPc, conn>>
        /\ UNCHANGED <<linkVars, written, arrived, raised, opWrites, returned, event_handlers, dispatched>>

\* sender(), lines 45-46: asyncio.sleep(0.01) after queue.Empty is over
SenderWake(t) ==
    /\ ioPc[t] = "running"
    /\ senderPc[t] = "sleep"
    /\ senderPc' = [senderPc EXCEPT ![t] = "get"]
    /\ UNCHANGED <<bridgeVars, tBridge, ioPc, receiverPc, conn, linkVars, obsVars>>

\* receiver(), line 58: the loop test
ReceiverCheck(t) ==
    /\ ioPc[t] = "running"
    /\ receiverPc[t] = "check"
    /\ receiverPc' = [receiverPc EXCEPT ![t] = IF stop_event[tBridge[t]] THEN "done" ELSE "recv"]
    /\ UNCHANGED <<bridgeVars, tBridge, ioPc, senderPc, conn, linkVars, obsVars>>

\* the chunk receiver() puts for a received frame, lines 61-64
ReceivedChunk(m) == IF m.kind = "str" THEN Encode(m.val) ELSE m.val

\* receiver(), lines 60-75: websocket.recv() returns a frame, which is put on
\* the read queue, or raises because the connection is closed
ReceiverRecv(t) ==
    LET b == tBridge[t]
    IN  /\ ioPc[t] = "running"
        /\ receiverPc[t] = "recv"
        /\ \/ /\ conn[t] = "up"
              /\ Len(Flatten([i \in Bridges |-> arrived[i]])) < MaxRecv
              /\ \E m \in WireMsgs :
                    /\ read_queue' = [read_queue EXCEPT ![b] = Append(@, ReceivedChunk(m))]
                    /\ arrived' = [arrived EXCEPT ![b] = Append(@, ReceivedChunk(m))]
              /\ receiverPc' = [receiverPc EXCEPT ![t] = "check"]
           \/ /\ conn[t] = "closed"
              /\ receiverPc' = [receiverPc EXCEPT ![t] = "done"]
              /\ UNCHANGED <<read_queue, arrived>>
        /\ UNCHANGED <<is_open, thread, stop_event, event_loop, write_queue>>
        /\ UNCHANGED <<tBridge, ioPc, senderPc, conn>>
        /\ UNCHANGED <<linkVars, written, passed, raised, opWrites, returned, event_handlers, dispatched>>

\* websocket_handler, lines 77 and 83-85: gather() returns once both pumps
\* have ended; the connection is left and is_open becomes false
HandlerExit(t) ==
    /\ ioPc[t] = "running"
    /\ senderPc[t] = "done"
    /\ receiverPc[t] = "done"
    /\ is_open' = [is_open EXCEPT ![tBridge[t]] = FALSE]
    /\ ioPc' = [ioPc EXCEPT ![t] = "finished"]
    /\ conn' = [conn EXCEPT ![t] = "closed"]
    /\ UNCHANGED <<thread, stop_event, event_loop, read_queue, write_queue>>
    /\ UNCHANGED <<tBridge, senderPc, receiverPc>>
    /\ UNCHANGED <<linkVars, obsVars>>

\* the remote end closes the connection
RemoteClose(t) ==
    /\ conn[t] = "up"
    /\ ioPc[t] = "running"
    /\ conn' = [conn EXCEPT ![t] = "closed"]
    /\ UNCHANGED <<bridgeVars, tBridge, ioPc, senderPc, receiverPc, linkVars, obsVars>>

\* a step of the two pumps of a connected thread
PumpStep(t) ==
    \/ SenderTurn(t)
    \/ SenderWake(t)
    \/ ReceiverCheck(t)
    \/ ReceiverRecv(t)
    \/ HandlerExit(t)

\* a step of the I/O thread
IOStep(t) ==
    \/ ThreadInit(t)
    \/ ThreadConnect(t)
    \/ PumpStep(t)

\* ------------------------------------------------- the bridge's interface
\* open(), line 92: the early return
OpenReturnsEarly(b) == is_open[b] \/ thread[b] # 0

\* open(), lines 94-96: clear the stop signal, start the I/O thread
OpenStart(b) ==
    /\ stop_event' = [stop_event EXCEPT ![b] = FALSE]
    /\ thread' = [thread EXCEPT ![b] = NextThread]
    /\ tBridge' = [tBridge EXCEPT ![NextThread] = b]
    /\ ioPc' = [ioPc EXCEPT ![NextThread] = "start"]
    /\ UNCHANGED <<is_open, event_loop, senderPc, receiverPc, conn>>

\* open(), lines 100-101, after the 0.1 s sleep: raises SerialException
OpenRaises(b) == ~is_open[b] /\ ~stop_event[b]

\* a close() that sets the stop signal and leaves the rest as it is
CloseKeepsOpen(b) ==
    /\ stop_event' = [stop_event EXCEPT ![b] = TRUE]
    /\ UNCHANGED <<ioPc, thread, is_open>>

\* close(), lines 106-115: set the stop signal, stop the event loop (the
\* thread running it leaves run_until_complete with RuntimeError), join,
\* forget the thread, is_open false
Close(b) ==
    IF is_open[b] \/ thread[b] # 0
    THEN /\ stop_event' = [stop_event EXCEPT ![b] = TRUE]
         /\ ioPc' = [t \in Threads |->
                        IF t = event_loop[b] /\ ioPc[t] \in {"connecting", "running"}
                        THEN "killed" ELSE ioPc[t]]
         /\ thread' = [thread EXCEPT ![b] = 0]
         /\ is_open' = [is_open EXCEPT ![b] = FALSE]
    ELSE UNCHANGED <<stop_event, ioPc, thread, is_open>>

\* a write() that accepts data whatever the state of the bridge
WriteNeverRaises(b) == FALSE

\* write(), lines 118-119: raises SerialException
WriteRaises(b) == ~is_open[b]

\* a queue that is not first-in first-out: the chunk goes to the front
EnqueueFront(q, data) == <<data>> \o q

\* write(), line 122: queue.put
Enqueue(q, data) == Append(q, data)

\* read(), lines 128-135: up to size chunks are taken off the read queue
\* until it is found empty; the result is their concatenation
ReadTaken(b, size) == IF Len(read_queue[b]) < size THEN Len(read_queue[b]) ELSE size
\* the chunks taken, the later one first
ReadResultLastFirst(b, size) ==
    Flatten([i \in 1..ReadTaken(b, size) |-> read_queue[b][ReadTaken(b, size) + 1 - i]])

ReadResult(b, size) == Flatten(SubSeq(read_queue[b], 1, ReadTaken(b, size)))
ReadRest(b, size) == SubSeq(read_queue[b], ReadTaken(b, size) + 1, Len(read_queue[b]))

\* ------------------------------------------------------ the handler tables
\* The handler tables a client installs: event name -> subscribers, in
\* registration order. T1 and T2 share no subscriber; no table subscribes to
\* 'disconnect'.
Tables ==
    [n \in {"T1", "T2"} |->
        IF n = "T1"
        THEN [e \in {"connect", "iii_output"} |->
                 IF e = "connect" THEN <<"p", "q", "r">> ELSE <<"q">>]
        ELSE [e \in {"connect"} |-> <<"x", "y">>]]

\* the events raised, and the subscribers that raise an Exception when invoked
EventNames == {"connect", "iii_output", "disconnect"}
RaisingHandlers == {"q", "y"}

\* raise_event, lines 41-45: the handlers looked up, none on KeyError
Subscribers(table, event) == IF event \in DOMAIN table THEN table[event] ELSE <<>>

\* a dispatch that gives up at the first subscriber that raises
RECURSIVE InvocationsUntilRaise(_)
InvocationsUntilRaise(handlers) ==
    IF handlers = <<>> THEN <<>>
    ELSE IF Head(handlers) \in RaisingHandlers THEN <<Head(handlers)>>
    ELSE <<Head(handlers)>> \o InvocationsUntilRaise(Tail(handlers))

\* raise_event, lines 46-50: the handlers invoked, in order; the exception
\* of one is caught inside the loop and the loop goes on
Invocations(handlers) == handlers

\* one entry of the dispatcher's record: a table installed, or a subscriber
\* invoked for the call-th raise_event
Installed(n, after) ==
    [kind |-> "replace", table |-> n, handler |-> "", call |-> after, raises |-> FALSE]
Invoked(h, k) ==
    [kind |-> "invoke", table |-> "", handler |-> h, call |-> k, raises |-> h \in RaisingHandlers]

\* ---------------------------------------------------------------- the link
\* the bytes as they are, whatever their number
PayloadAsGiven(bs) == bs

\* writebin, lines 71-72: the bytes handed to serial.write
Payload(bs) == IF Len(bs) % PacketSize = 0 THEN bs \o <<LF>> ELSE bs

\* write(s) / writeline(line), lines 76-80: the bytes given to writebin
WriteBytes(s) == Encode(s)
WritelineBytes(line) == WriteBytes(line \o CRLF)

\* writebin raises (the bridge's write does)
WritebinRaises == serial # 0 /\ WriteRaises(serial)

\* writebin, lines 69-74: nothing without a bridge; otherwise serial.write.
\* base is what the call in progress has enqueued so far.
Writebin(bs, base) ==
    IF serial # 0 /\ ~WriteRaises(serial)
    THEN /\ write_queue' = [write_queue EXCEPT ![serial] = Enqueue(@, Payload(bs))]
         /\ written' = [written EXCEPT ![serial] = Append(@, Payload(bs))]
         /\ opWrites' = Append(base, Payload(bs))
    ELSE /\ UNCHANGED <<write_queue, written>>
         /\ opWrites' = base

\* the shell makes one more call on the link
ShellCall ==
    /\ mainPc = "idle"
    /\ calls < MaxCalls
    /\ calls' = calls + 1
    /\ UNCHANGED pumpPc

\* write(s), called from the shell
Write(s) ==
    /\ ShellCall
    /\ Writebin(WriteBytes(s), <<>>)
    /\ op' = [NoOp EXCEPT !.kind = "write", !.data = s,
                          !.result = IF WritebinRaises THEN "SerialException" ELSE "ok"]
    /\ raised' = <<>>
    /\ UNCHANGED <<is_open, thread, stop_event, event_loop, read_queue>>
    /\ UNCHANGED <<threadVars, serial, is_connected, mainPc, passed, arrived, returned, event_handlers, dispatched>>

\* writeline(line), called from the shell
Writeline(line) ==
    /\ ShellCall
    /\ Writebin(WritelineBytes(line), <<>>)
    /\ op' = [NoOp EXCEPT !.kind = "writeline", !.data = line,
                          !.result = IF WritebinRaises THEN "SerialException" ELSE "ok"]
    /\ raised' = <<>>
    /\ UNCHANGED <<is_open, thread, stop_event, event_loop, read_queue>>
    /\ UNCHANGED <<threadVars, serial, is_connected, mainPc, passed, arrived, returned, event_handlers, dispatched>>

\* writefile, line 86: what is written for each line of the file
RECURSIVE FileTexts(_)
FileTexts(lines) ==
    IF lines = <<>> THEN <<>> ELSE <<Rstrip(Head(lines))>> \o FileTexts(Tail(lines))

\* the frame with its two closing markers in the other order
UploadFrameEndFirst(fname, end) == <<MarkS>> \o FileTexts(FileLines(fname)) \o <<MarkZ, end>>

\* _upload, lines 91-97: the texts given to writeline, in order
UploadFrame(fname, end) == <<MarkS>> \o FileTexts(FileLines(fname)) \o <<end, MarkZ>>

\* _upload, line 90: the call raises its progress event
UploadBegin(kind, fname, event, end) ==
    /\ ShellCall
    /\ raised' = <<Event(event, <<fname>>)>>
    /\ opWrites' = <<>>
    /\ mainPc' = "upload"
    /\ op' = [NoOp EXCEPT !.kind = kind, !.fname = fname, !.event = event, !.end = end,
                          !.was_connected = is_connected, !.idx = 1, !.result = "running"]
    /\ UNCHANGED <<bridgeVars, threadVars, serial, is_connected, written, passed, arrived, returned, event_handlers, dispatched>>

\* execute(fname), lines 99-100
Execute(fname) == UploadBegin("execute", fname, "running", MarkE)

\* upload(fname), lines 102-103
Upload(fname) == UploadBegin("upload", fname, "uploading", MarkW)

\* _upload, lines 91-97, and writefile: the next writeline of the transfer
\* (each but the first comes after a sleep). writefile opens the file before
\* the first line: FileNotFoundError when it is missing.
UploadStep ==
    /\ mainPc = "upload"
    /\ LET frame == UploadFrame(op.fname, op.end)
       IN  IF op.idx = 2 /\ ~FileExists(op.fname)
           THEN /\ mainPc' = "idle"
                /\ op' = [op EXCEPT !.result = "FileNotFoundError"]
                /\ UNCHANGED <<write_queue, written, opWrites>>
           ELSE /\ Writebin(WritelineBytes(frame[op.idx]), opWrites)
                /\ IF WritebinRaises
                   THEN /\ mainPc' = "idle"
                        /\ op' = [op EXCEPT !.result = "SerialException"]
                   ELSE IF op.idx = Len(frame)
                   THEN /\ mainPc' = "idle"
                        /\ op' = [op EXCEPT !.result = "ok"]
                   ELSE /\ mainPc' = "upload"
                        /\ op' = [op EXCEPT !.idx = @ + 1]
    /\ UNCHANGED <<is_open, thread, stop_event, event_loop, read_queue>>
    /\ UNCHANGED <<threadVars, serial, is_connected, calls, pumpPc, passed, arrived, returned, event_handlers, dispatched, raised>>

\* connect(), lines 32-33, up to the sleep inside open(): a new bridge
\* object replaces self.serial and is opened (a new bridge never returns
\* early from open)
ConnectBegin ==
    /\ serial < MaxBridges
    /\ NextThread \in Threads
    /\ serial' = serial + 1
    /\ OpenStart(serial + 1)
    /\ mainPc' = "open_wait"

\* reconnect(err_event), called from the shell: lines 59-60
Reconnect(err_event) ==
    /\ ShellCall
    /\ ConnectBegin
    /\ op' = [NoOp EXCEPT !.kind = "reconnect", !.err_event = err_event,
                          !.was_connected = is_connected, !.result = "running"]
    /\ raised' = <<>>
    /\ opWrites' = <<>>
    /\ UNCHANGED <<read_queue, write_queue, is_connected, written, passed, arrived, returned, event_handlers, dispatched>>

\* a report only when both hold
ReportsErrorBoth(err_event) == is_connected /\ err_event

\* reconnect, line 65: whether a failed attempt is reported
ReportsError(err_event) == is_connected \/ err_event

\* an except clause that catches the bridge's error only
ExceptCatchesSerialOnly(cls) == cls = "SerialException"

\* except Exception, lines 50, 64 and 126: the classes it catches, among
\* those raised under read_forever (SerialException by the bridge's read and
\* open, UnicodeDecodeError by decode, Exception by a subscriber)
ExceptCatches(cls) == cls \in {"Exception", "SerialException", "UnicodeDecodeError"}

\* raise_event(event) as the k-th event of the call in progress: the
\* subscribers invoked
Dispatch(event, k) ==
    LET hs == Invocations(Subscribers(event_handlers, event))
    IN  [i \in 1..Len(hs) |-> Invoked(hs[i], k)]

\* raise_event, lines 48-50: the exception of a subscriber leaves the call
HandlerEscapes(event) ==
    /\ ~ExceptCatches("Exception")
    /\ \E i \in 1..Len(Subscribers(event_handlers, event)) :
          Subscribers(event_handlers, event)[i] \in RaisingHandlers

\* an exception leaves reconnect(): it ends read_forever when the pump made
\* the call (line 130 is outside the try)
AfterEscape(escapes) == IF escapes /\ op.kind = "pump" THEN "exited" ELSE pumpPc

\* reconnect, lines 60 and 64-67: open() wakes from its sleep and either
\* raises, which reconnect handles, or returns
OpenReturn ==
    /\ mainPc = "open_wait"
    /\ IF OpenRaises(serial)
       THEN /\ mainPc' = "idle"
            /\ IF ~ExceptCatches("SerialException")
               THEN /\ op' = [op EXCEPT !.result = "SerialException"]
                    /\ pumpPc' = AfterEscape(TRUE)
                    /\ UNCHANGED <<is_connected, raised, dispatched>>
               ELSE /\ op' = [op EXCEPT !.result = "failed"]
                    /\ IF ReportsError(op.err_event)
                       THEN /\ is_connected' = FALSE
                            /\ raised' = Append(raised, Event("connect_err", <<"SerialException">>))
                            /\ dispatched' = dispatched \o Dispatch("connect_err", Len(raised) + 1)
                            /\ pumpPc' = AfterEscape(HandlerEscapes("connect_err"))
                       ELSE UNCHANGED <<is_connected, raised, dispatched, pumpPc>>
       ELSE /\ mainPc' = "opened"
            /\ UNCHANGED <<op, is_connected, raised, dispatched, pumpPc>>
    /\ UNCHANGED <<bridgeVars, threadVars, serial, calls, written, passed, arrived, returned, event_handlers, opWrites>>

\* a reconnect that raises nothing
ReconnectSilent(open) == <<>>

\* reconnect, lines 61-63: the events raised once connect() has returned,
\* open being what is_open() answers
ReconnectEvents(open) == IF open THEN <<Event("connect", <<>>)>> ELSE <<>>

\* reconnect, lines 61-63: connect() has returned
ReconnectFinish ==
    /\ mainPc = "opened"
    /\ mainPc' = "idle"
    /\ raised' = raised \o ReconnectEvents(serial # 0 /\ is_open[serial])
    /\ IF serial # 0 /\ is_open[serial]
       THEN /\ is_connected' = TRUE
            /\ op' = [op EXCEPT !.result = "connected"]
            /\ dispatched' = dispatched \o Dispatch("connect", Len(raised) + 1)
            /\ pumpPc' = AfterEscape(HandlerEscapes("connect"))
       ELSE /\ op' = [op EXCEPT !.result = "not_open"]
            /\ UNCHANGED <<is_connected, dispatched, pumpPc>>
    /\ UNCHANGED <<bridgeVars, threadVars, serial, calls, written, passed, arrived, returned, event_handlers, opWrites>>

\* disconnect(), lines 36-39
Disconnect ==
    /\ ShellCall
    /\ is_connected' = FALSE
    /\ IF serial # 0 THEN Close(serial) ELSE UNCHANGED <<stop_event, ioPc, thread, is_open>>
    /\ op' = [NoOp EXCEPT !.kind = "disconnect"]
    /\ raised' = <<>>
    /\ opWrites' = <<>>
    /\ UNCHANGED <<event_loop, read_queue, write_queue, tBridge, senderPc, receiverPc, conn>>
    /\ UNCHANGED <<serial, mainPc, written, passed, arrived, returned, event_handlers, dispatched>>

\* readbin(count), lines 105-111: raises when the bridge's read does (line 126)
ReadRaises == serial # 0 /\ ~is_open[serial]
ReadBytes(count) == IF serial = 0 THEN <<>> ELSE ReadResult(serial, count)

\* read_forever, lines 120-125: what is left of a successful read for the
\* tokenizer (line 121 replaces it), and the events raised for it
PumpText(decoded) == <<>>
PumpEvents(r) == IF Len(r) > 0 THEN ProcessLines(Split(r, LFCR)) ELSE <<>>

\* read_forever, lines 126-130: the exception of class cls raised by the
\* read is caught and reconnect() called; data is what the read had taken
PumpExcept(cls, data) ==
    IF ExceptCatches(cls)
    THEN /\ ConnectBegin
         /\ op' = [NoOp EXCEPT !.kind = "pump", !.data = data,
                               !.was_connected = is_connected, !.result = "running"]
         /\ raised' = <<>>
         /\ opWrites' = <<>>
         /\ UNCHANGED pumpPc
    ELSE /\ pumpPc' = "exited"
         /\ UNCHANGED <<is_open, thread, stop_event, event_loop>>
         /\ UNCHANGED <<threadVars, serial, mainPc, op, raised, opWrites>>

\* read_forever, lines 118-131: one iteration of the loop, up to its sleep or
\* up to the sleep inside the open() of reconnect()
PumpIteration ==
    /\ pumpPc = "running"
    /\ mainPc = "idle"
    /\ UNCHANGED <<write_queue, is_connected, calls, written, passed, arrived, event_handlers, dispatched>>
    /\ IF ReadRaises
       THEN /\ PumpExcept("SerialException", <<>>)
            /\ UNCHANGED <<read_queue, returned>>
       ELSE LET data == ReadBytes(ReadCount)
            IN  /\ read_queue' = IF serial = 0 THEN read_queue
                                 ELSE [read_queue EXCEPT ![serial] = ReadRest(serial, ReadCount)]
                /\ returned' = IF serial = 0 THEN returned
                               ELSE [returned EXCEPT ![serial] = @ \o data]
                /\ IF Decode(data) = DecodeError
                   THEN PumpExcept("UnicodeDecodeError", data)
                   ELSE /\ raised' = raised \o PumpEvents(PumpText(Decode(data)))
                        /\ UNCHANGED <<is_open, thread, stop_event, event_loop>>
                        /\ UNCHANGED <<threadVars, serial, mainPc, op, opWrites, pumpPc>>

\* ------------------------------------------------------------ specification
Next ==
    \/ \E t \in Threads : IOStep(t)
    \/ \E t \in Threads : RemoteClose(t)
    \/ \E e \in BOOLEAN : Reconnect(e)
    \/ OpenReturn
    \/ ReconnectFinish
    \/ Disconnect
    \/ \E s \in CmdTexts : Write(s)
    \/ \E s \in CmdTexts : Writeline(s)
    \/ \E f \in Paths : Upload(f)
    \/ \E f \in Paths : Execute(f)
    \/ UploadStep
    \/ PumpIteration

Spec == Init /\ [][Next]_vars

\* ------------------------------------------------------------ one session
\* The session main() starts with (repl.py:406): reconnect(err_event=True)
\* has succeeded on the first bridge and the shell is about to make one
\* call, whose argument is drawn here: a text for write / writeline, or a
\* path for upload / execute.
SessionInit ==
    /\ is_open = [b \in Bridges |-> b = 1]
    /\ thread = [b \in Bridges |-> IF b = 1 THEN 1 ELSE 0]
    /\ stop_event = [b \in Bridges |-> FALSE]
    /\ event_loop = [b \in Bridges |-> IF b = 1 THEN 1 ELSE 0]
    /\ read_queue = [b \in Bridges |-> <<>>]
    /\ write_queue = [b \in Bridges |-> <<>>]
    /\ tBridge = [t \in Threads |-> IF t = 1 THEN 1 ELSE 0]
    /\ ioPc = [t \in Threads |-> IF t = 1 THEN "running" ELSE "none"]
    /\ senderPc = [t \in Threads |-> IF t = 1 THEN "get" ELSE "none"]
    /\ receiverPc = [t \in Threads |-> IF t = 1 THEN "check" ELSE "none"]
    /\ conn = [t \in Threads |-> IF t = 1 THEN "up" ELSE "none"]
    /\ serial = 1
    /\ is_connected = TRUE
    /\ mainPc = "idle"
    /\ calls = 0
    /\ pumpPc = "running"
    /\ \/ \E s \in Texts : op = [NoOp EXCEPT !.kind = "pending", !.data = s]
       \/ \E f \in SessionPaths : op = [NoOp EXCEPT !.kind = "pending", !.fname = f]
    /\ written = [b \in Bridges |-> <<>>]
    /\ passed = [b \in Bridges |-> <<>>]
    /\ arrived = [b \in Bridges |-> <<>>]
    /\ returned = [b \in Bridges |-> <<>>]
    /\ event_handlers = NoHandlers
    /\ dispatched = <<>>
    /\ raised = <<Event("connect", <<>>)>>
    /\ opWrites = <<>>

\* the shell makes the call drawn
SessionWrite == op.kind = "pending" /\ op.fname = "" /\ Write(op.data)
SessionWriteline == op.kind = "pending" /\ op.fname = "" /\ Writeline(op.data)
SessionUpload == op.kind = "pending" /\ op.fname # "" /\ Upload(op.fname)
SessionExecute == op.kind = "pending" /\ op.fname # "" /\ Execute(op.fname)

SessionNext ==
    \/ \E t \in Threads : PumpStep(t)
    \/ \E t \in Threads : RemoteClose(t)
    \/ SessionWrite
    \/ SessionWriteline
    \/ SessionUpload
    \/ SessionExecute
    \/ UploadStep

SessionSpec == SessionInit /\ [][SessionNext]_vars

\* The I/O thread runs, and its event loop schedules both pumps: every step
\* of the thread that stays possible is eventually taken. Nothing obliges the
\* shell to call, or the remote end to send or to close.
IOFairness ==
    \A t \in Threads :
        /\ WF_vars(ThreadInit(t))
        /\ WF_vars(ThreadConnect(t))
        /\ WF_vars(SenderTurn(t))
        /\ WF_vars(SenderWake(t))
        /\ WF_vars(ReceiverCheck(t))
        /\ WF_vars(ReceiverRecv(t) /\ conn[t] = "closed")
        /\ WF_vars(HandlerExit(t))
FairSpec == Spec /\ IOFairness

\* the state SessionInit starts from, as Spec reaches it
SessionStart ==
    /\ serial = 1 /\ is_connected /\ is_open[1] /\ thread[1] = 1 /\ event_loop[1] = 1
    /\ ioPc[1] = "running" /\ senderPc[1] = "get" /\ receiverPc[1] = "check"
    /\ conn[1] = "up" /\ mainPc = "idle" /\ ~stop_event[1]
    /\ read_queue[1] = <<>> /\ write_queue[1] = <<>> /\ written[1] = <<>>
    /\ raised = <<Event("connect", <<>>)>> /\ opWrites = <<>>

\* ------------------------------------------------------- the bridge alone
\* A client that holds a bridge and calls it directly, as Deviceviii does
\* through self.serial: the state is the one after line 32 of viii.py, the
\* bridge constructed and not yet opened.
BridgeInit ==
    /\ is_open = [b \in Bridges |-> FALSE]
    /\ thread = [b \in Bridges |-> 0]
    /\ stop_event = [b \in Bridges |-> FALSE]
    /\ event_loop = [b \in Bridges |-> 0]
    /\ read_queue = [b \in Bridges |-> <<>>]
    /\ write_queue = [b \in Bridges |-> <<>>]
    /\ tBridge = [t \in Threads |-> 0]
    /\ ioPc = [t \in Threads |-> "none"]
    /\ senderPc = [t \in Threads |-> "none"]
    /\ receiverPc = [t \in Threads |-> "none"]
    /\ conn = [t \in Threads |-> "none"]
    /\ serial = 1
    /\ is_connected = FALSE
    /\ mainPc = "idle"
    /\ op = NoOp
    /\ calls = 0
    /\ pumpPc = "running"
    /\ written = [b \in Bridges |-> <<>>]
    /\ passed = [b \in Bridges |-> <<>>]
    /\ arrived = [b \in Bridges |-> <<>>]
    /\ returned = [b \in Bridges |-> <<>>]
    /\ event_handlers = NoHandlers
    /\ dispatched = <<>>
    /\ raised = <<>>
    /\ opWrites = <<>>

\* the client makes one more call on the bridge
BridgeCall ==
    /\ mainPc = "idle"
    /\ calls < MaxOps
    /\ calls' = calls + 1
    /\ UNCHANGED pumpPc

\* what the client passes to write(): a str or bytes
WriteArgs ==
    { [kind |-> "str", val |-> <<233>>],
      [kind |-> "bytes", val |-> <<1, 2>>] }

\* the sizes the client passes to read()
ReadSizes == {1, 2}

\* open(), lines 92-99: the early return, or the thread is started and the
\* caller sleeps
BridgeOpen ==
    /\ BridgeCall
    /\ IF OpenReturnsEarly(serial)
       THEN /\ op' = [NoOp EXCEPT !.kind = "open", !.result = "early"]
            /\ UNCHANGED <<bridgeVars, threadVars, mainPc>>
       ELSE /\ NextThread \in Threads
            /\ OpenStart(serial)
            /\ mainPc' = "open_wait"
            /\ op' = [NoOp EXCEPT !.kind = "open", !.result = "running"]
            /\ UNCHANGED <<read_queue, write_queue>>
    /\ UNCHANGED <<serial, is_connected, obsVars>>

\* open(), lines 100-101: the sleep is over
BridgeOpenReturn ==
    /\ mainPc = "open_wait"
    /\ mainPc' = "idle"
    /\ op' = [op EXCEPT !.result = IF OpenRaises(serial) THEN "SerialException" ELSE "ok"]
    /\ UNCHANGED <<bridgeVars, threadVars, serial, is_connected, calls, pumpPc, obsVars>>

\* close(), lines 106-115
BridgeClose ==
    /\ BridgeCall
    /\ Close(serial)
    /\ op' = [NoOp EXCEPT !.kind = "close",
                          !.result = IF is_open[serial] \/ thread[serial] # 0
                                     THEN "closed" ELSE "nothing"]
    /\ UNCHANGED <<event_loop, read_queue, write_queue>>
    /\ UNCHANGED <<tBridge, senderPc, receiverPc, conn>>
    /\ UNCHANGED <<serial, is_connected, mainPc, obsVars>>

\* write(), lines 120-121: the bytes that are queued
WriteData(d) == IF d.kind = "str" THEN Encode(d.val) ELSE d.val

\* write(), line 123: the value returned
WriteReturn(data) == Len(data)

\* write(data), lines 117-123; op.idx is the value returned
BridgeWrite(d) ==
    /\ BridgeCall
    /\ IF WriteRaises(serial)
       THEN /\ op' = [NoOp EXCEPT !.kind = "bwrite", !.data = WriteData(d),
                                  !.result = "SerialException"]
            /\ UNCHANGED <<write_queue, written>>
       ELSE /\ write_queue' = [write_queue EXCEPT ![serial] = Enqueue(@, WriteData(d))]
            /\ written' = [written EXCEPT ![serial] = Append(@, WriteData(d))]
            /\ op' = [NoOp EXCEPT !.kind = "bwrite", !.data = WriteData(d),
                                  !.idx = WriteReturn(WriteData(d))]
    /\ UNCHANGED <<is_open, thread, stop_event, event_loop, read_queue>>
    /\ UNCHANGED <<threadVars, serial, is_connected, mainPc>>
    /\ UNCHANGED <<passed, arrived, raised, opWrites, returned, event_handlers, dispatched>>

\* read(size), lines 125-135; op.idx is size, op.data the value returned
BridgeRead(size) ==
    /\ BridgeCall
    /\ IF ~is_open[serial]
       THEN /\ op' = [NoOp EXCEPT !.kind = "bread", !.idx = size, !.result = "SerialException"]
            /\ UNCHANGED <<read_queue, returned>>
       ELSE /\ op' = [NoOp EXCEPT !.kind = "bread", !.idx = size,
                                  !.data = ReadResult(serial, size)]
            /\ read_queue' = [read_queue EXCEPT ![serial] = ReadRest(serial, size)]
            /\ returned' = [returned EXCEPT ![serial] = @ \o ReadResult(serial, size)]
    /\ UNCHANGED <<is_open, thread, stop_event, event_loop, write_queue>>
    /\ UNCHANGED <<threadVars, serial, is_connected, mainPc>>
    /\ UNCHANGED <<written, passed, arrived, raised, opWrites, event_handlers, dispatched>>

BridgeNext ==
    \/ \E t \in Threads : IOStep(t)
    \/ \E t \in Threads : RemoteClose(t)
    \/ BridgeOpen
    \/ BridgeOpenReturn
    \/ BridgeClose
    \/ \E d \in WriteArgs : BridgeWrite(d)
    \/ \E n \in ReadSizes : BridgeRead(n)

BridgeSpec == BridgeInit /\ [][BridgeNext]_vars

\* ------------------------------------------------------------------ claims
HasEvent(log, name) == \E i \in 1..Len(log) : log[i].name = name
CountEvent(log, name) == Cardinality({i \in 1..Len(log) : log[i].name = name})
IsPrefix(p, q) == Len(p) <= Len(q) /\ SubSeq(q, 1, Len(p)) = p

\* a connect attempt: reconnect() called by the shell or by the read pump
AttemptOp == op.kind \in {"reconnect", "pump"}
\* an upload or execute call
UploadOp == op.kind \in {"upload", "execute"}

\* C1: on every bridge the chunks accepted by write are, in call order, the
\* chunks the sender has passed to websocket.send followed by the chunks
\* still queued: none is lost, duplicated or reordered, and so the bytes
\* passed on are the concatenation of the written chunks.
C1_OutboundOrder ==
    \A b \in Bridges :
        /\ written[b] = passed[b] \o write_queue[b]
        /\ Flatten(passed[b]) \o Flatten(write_queue[b]) = Flatten(written[b])

\* C1 witness: two different chunks have been passed on and another waits
C1_Witness ==
    \E b \in Bridges :
        /\ Len(passed[b]) >= 2
        /\ passed[b][1] # passed[b][2]
        /\ write_queue[b] # <<>>

\* a pump of thread t has ended on a transport error (not on the stop signal)
ErrorSeen(t) ==
    /\ ioPc[t] = "running"
    /\ ~stop_event[tBridge[t]]
    /\ senderPc[t] = "done" \/ receiverPc[t] = "done"

\* both pumps of thread t are over and its bridge is not open
BridgeDown(t) == ioPc[t] # "running" /\ ~is_open[tBridge[t]]

\* C2: once a pump of an open bridge has seen a transport error, both pumps
\* stop and is_open() becomes false.
C2_ErrorStopsBothPumps ==
    \A t \in Threads : (tBridge[t] # 0 /\ ErrorSeen(t)) ~> (tBridge[t] # 0 /\ BridgeDown(t))

\* C3: while the read pump's reconnect attempt after a read failure on a
\* connected link is under way, 'disconnect' has been raised first and
\* is_connected is false.
C3_DisconnectBeforeReconnect ==
    (op.kind = "pump" /\ op.was_connected /\ mainPc \in {"open_wait", "opened"})
        => (raised # <<>> /\ raised[1].name = "disconnect" /\ ~is_connected)

\* C4: when connect() has returned normally in a reconnect attempt that is
\* over, is_connected is true and exactly one 'connect' event was raised in
\* the attempt; an attempt that failed or is still under way has raised none.
C4_ConnectEvent ==
    AttemptOp =>
        /\ (mainPc = "idle" /\ op.result = "connected")
              => (is_connected /\ CountEvent(raised, "connect") = 1)
        /\ (op.result \in {"failed", "running"}) => CountEvent(raised, "connect") = 0

\* C4 witness: a reconnect by the pump, after a lost connection, succeeded
C4_Witness ==
    /\ op.kind = "pump" /\ op.was_connected
    /\ mainPc = "idle" /\ op.result = "connected" /\ is_connected
    /\ raised = <<Event("connect", <<>>)>>

\* C5: a failed attempt leaves is_connected false and raises exactly one
\* 'connect_err' carrying the error when the link was connected before the
\* attempt or the caller passed err_event, and no event at all otherwise.
C5_ConnectErr ==
    (AttemptOp /\ mainPc = "idle" /\ op.result = "failed") =>
        /\ ~is_connected
        /\ raised = IF op.was_connected \/ op.err_event
                    THEN <<Event("connect_err", <<"SerialException">>)>>
                    ELSE <<>>

\* C5 witness: the pump's attempt (no err_event) failed on a link that was
\* connected
C5_Witness ==
    /\ op.kind = "pump" /\ op.was_connected /\ ~op.err_event
    /\ mainPc = "idle" /\ op.result = "failed"
    /\ HasEvent(raised, "connect_err")

\* C5 witness of the silent case is reached as well
C5_SilentWitness ==
    /\ AttemptOp /\ ~op.was_connected /\ ~op.err_event
    /\ mainPc = "idle" /\ op.result = "failed" /\ raised = <<>>

\* a text with a character that is no line terminator holds a non-empty line
HasNonEmptyLine(text) == \E i \in 1..Len(text) : text[i] \notin {CR, LF}

\* C6: a pump iteration that reads data holding a non-empty line raises at
\* least one 'iii_event' or 'iii_output'.
C6_EveryLineProcessed ==
    [][(/\ mainPc = "idle" /\ serial # 0 /\ serial' = serial
        /\ Len(read_queue'[serial]) < Len(read_queue[serial])
        /\ Decode(ReadResult(serial, ReadCount)) # DecodeError
        /\ HasNonEmptyLine(Decode(ReadResult(serial, ReadCount))))
       => (\E i \in 1..Len(raised') :
              /\ i > Len(raised)
              /\ raised'[i].name \in {"iii_event", "iii_output"})]_vars

\* C7: an upload or execute call on a missing path ends with
\* FileNotFoundError and has enqueued nothing.
C7_MissingFileSendsNothing ==
    (UploadOp /\ ~FileExists(op.fname) /\ mainPc = "idle")
        => (op.result = "FileNotFoundError" /\ opWrites = <<>>)

\* a raw line of the file without its newline
LineText(raw) ==
    IF raw # <<>> /\ raw[Len(raw)] = LF THEN SubSeq(raw, 1, Len(raw) - 1) ELSE raw

ModeMark(kind) == IF kind = "execute" THEN MarkE ELSE MarkW
ProgressEvent(kind) == IF kind = "execute" THEN "running" ELSE "uploading"

\* '^^s', l1, ..., ln, the mode marker, '^^z': the i-th text of the transfer
TransferText(fname, kind, i) ==
    LET n == Len(FileLines(fname))
    IN  IF i = 1 THEN MarkS
        ELSE IF i <= n + 1 THEN LineText(FileLines(fname)[i - 1])
        ELSE IF i = n + 2 THEN ModeMark(kind)
        ELSE MarkZ

\* C8 as claimed: the call on an existing file, on the connected link,
\* enqueues exactly the n+3 texts, each followed by '\r\n', after its event.
C8_ClaimedWrites(fname, kind) ==
    [i \in 1..(Len(FileLines(fname)) + 3) |-> Encode(TransferText(fname, kind, i)) \o CRLF]

C8_ExactFrame ==
    (UploadOp /\ FileExists(op.fname) /\ op.was_connected /\ mainPc = "idle")
        => /\ opWrites = C8_ClaimedWrites(op.fname, op.kind)
           /\ raised = <<Event(ProgressEvent(op.kind), <<op.fname>>)>>

\* one more '\n' after a chunk whose length is a multiple of 64
Padded(bs) == IF Len(bs) % 64 = 0 THEN bs \o <<10>> ELSE bs

\* C8 as amended: trailing whitespace of each line is stripped, a chunk of a
\* multiple of 64 bytes gets one more '\n', and a call during which the bridge
\* stops being open ends with SerialException after a prefix of the frame.
C8_AmendedWrites(fname, kind) ==
    [i \in 1..(Len(FileLines(fname)) + 3) |->
        Padded(Encode(Rstrip(TransferText(fname, kind, i))) \o CRLF)]

C8_UploadFrame ==
    (UploadOp /\ FileExists(op.fname) /\ op.was_connected) =>
        /\ raised = <<Event(ProgressEvent(op.kind), <<op.fname>>)>>
        /\ IsPrefix(opWrites, C8_AmendedWrites(op.fname, op.kind))
        /\ mainPc = "upload" => Len(opWrites) = op.idx - 1
        /\ mainPc = "idle" =>
              \/ op.result = "ok" /\ opWrites = C8_AmendedWrites(op.fname, op.kind)
              \/ /\ op.result = "SerialException"
                 /\ ~is_open[serial]
                 /\ Len(opWrites) < Len(C8_AmendedWrites(op.fname, op.kind))

\* C8 witness: a whole transfer of a file with a stripped line and of one
\* with a padded line
C8_Witness ==
    /\ op.kind = "upload" /\ op.fname = "two" /\ mainPc = "idle" /\ op.result = "ok"
    /\ Len(opWrites) = 5

\* C9 as claimed: the chunk handed to the bridge is the UTF-8 of the text
\* (and '\r\n' for writeline), nothing more
C9_ExactBytes ==
    /\ (op.kind = "writeline" /\ mainPc = "idle") => opWrites = <<Encode(op.data) \o CRLF>>
    /\ (op.kind = "write" /\ mainPc = "idle") => opWrites = <<Encode(op.data)>>

\* C9 as amended: one chunk is handed over; it decodes to the text (and
\* '\r\n' for writeline), with one more '\n' after it exactly when the UTF-8
\* length is a multiple of 64
C9_Handed(text) ==
    /\ Len(opWrites) = 1
    /\ opWrites[1] = Padded(Encode(text))
    /\ Decode(opWrites[1]) = IF Len(Encode(text)) % 64 = 0 THEN text \o <<10>> ELSE text

C9_PaddedBytes ==
    /\ (op.kind = "writeline" /\ mainPc = "idle") => C9_Handed(op.data \o CRLF)
    /\ (op.kind = "write" /\ mainPc = "idle") => C9_Handed(op.data)

\* C9 witness: a writeline whose bytes with the terminator number 128, in
\* two-byte characters, and so got the extra byte
C9_Witness ==
    /\ op.kind = "writeline" /\ mainPc = "idle" /\ op.result = "ok"
    /\ Len(op.data) = 63 /\ op.data[1] = 233
    /\ Len(opWrites[1]) = 129

\* C10: an upload or execute call on an existing file, made while the link
\* is not connected, ends with SerialException.
C10_NotConnectedFails ==
    (UploadOp /\ FileExists(op.fname) /\ ~op.was_connected /\ mainPc = "idle")
        => op.result = "SerialException"

\* ----------------------------------------------------------- the tokenizer
\* The characters of the lines fed to process_line: the marker's caret, the
\* parentheses, the comma, a space and a letter
LineChars == {Caret, LParen, RParen, Comma, 32, 97}

\* 'foo(1,2)^^bar(3)' and '^^clear()'
ExampleLines ==
    { <<102, 111, 111, 40, 49, 44, 50, 41, 94, 94, 98, 97, 114, 40, 51, 41>>,
      <<94, 94, 99, 108, 101, 97, 114, 40, 41>> }

Lines ==
    UNION {[1..n -> LineChars] : n \in 0..MaxLine} \cup ExampleLines

\* a new Deviceviii and a line about to be passed to process_line
TokenInit ==
    /\ is_open = [b \in Bridges |-> FALSE]
    /\ thread = [b \in Bridges |-> 0]
    /\ stop_event = [b \in Bridges |-> FALSE]
    /\ event_loop = [b \in Bridges |-> 0]
    /\ read_queue = [b \in Bridges |-> <<>>]
    /\ write_queue = [b \in Bridges |-> <<>>]
    /\ tBridge = [t \in Threads |-> 0]
    /\ ioPc = [t \in Threads |-> "none"]
    /\ senderPc = [t \in Threads |-> "none"]
    /\ receiverPc = [t \in Threads |-> "none"]
    /\ conn = [t \in Threads |-> "none"]
    /\ serial = 0
    /\ is_connected = FALSE
    /\ mainPc = "idle"
    /\ \E line \in Lines : op = [NoOp EXCEPT !.kind = "pending", !.data = line]
    /\ calls = 0
    /\ pumpPc = "running"
    /\ written = [b \in Bridges |-> <<>>]
    /\ passed = [b \in Bridges |-> <<>>]
    /\ arrived = [b \in Bridges |-> <<>>]
    /\ returned = [b \in Bridges |-> <<>>]
    /\ event_handlers = NoHandlers
    /\ dispatched = <<>>
    /\ raised = <<>>
    /\ opWrites = <<>>

\* process_line(line), lines 133-144: the events it raises
Tokenize ==
    /\ op.kind = "pending"
    /\ raised' = process_line(op.data)
    /\ op' = [op EXCEPT !.kind = "process_line"]
    /\ UNCHANGED <<bridgeVars, threadVars, serial, is_connected, mainPc, calls, pumpPc>>
    /\ UNCHANGED <<written, passed, arrived, opWrites, returned, event_handlers, dispatched>>

TokenSpec == TokenInit /\ [][Tokenize]_vars

\* ---------------------------------------------------------- the dispatcher
\* the client makes one more call on the dispatcher
DispatchCall ==
    /\ mainPc = "idle"
    /\ calls < MaxDispatch
    /\ calls' = calls + 1
    /\ UNCHANGED pumpPc

\* raise_event(event), lines 41-51; it returns normally whatever the
\* subscribers do
RaiseEvent(event) ==
    /\ DispatchCall
    /\ raised' = Append(raised, Event(event, <<>>))
    /\ LET hs == Invocations(Subscribers(event_handlers, event))
       IN  dispatched' = dispatched \o [i \in 1..Len(hs) |-> Invoked(hs[i], Len(raised) + 1)]
    /\ op' = [NoOp EXCEPT !.kind = "raise_event", !.event = event, !.result = "ok"]
    /\ UNCHANGED <<bridgeVars, threadVars, serial, is_connected, mainPc>>
    /\ UNCHANGED <<written, passed, arrived, opWrites, returned, event_handlers>>

\* a table that keeps the old subscribers beside the new ones
MergedTable(old, new) ==
    [e \in DOMAIN old \cup DOMAIN new |-> Subscribers(old, e) \o Subscribers(new, e)]

\* replace_handlers, line 54: the table after the assignment
NewTable(old, new) == new

\* replace_handlers(handlers), lines 53-54
ReplaceHandlers(n) ==
    /\ DispatchCall
    /\ event_handlers' = NewTable(event_handlers, Tables[n])
    /\ dispatched' = Append(dispatched, Installed(n, Len(raised)))
    /\ op' = [NoOp EXCEPT !.kind = "replace_handlers"]
    /\ UNCHANGED <<bridgeVars, threadVars, serial, is_connected, mainPc>>
    /\ UNCHANGED <<written, passed, arrived, raised, opWrites, returned>>

DispatchNext ==
    \/ \E e \in EventNames : RaiseEvent(e)
    \/ \E n \in DOMAIN Tables : ReplaceHandlers(n)

\* a new Deviceviii, its dispatcher called directly
DispatchSpec == Init /\ [][DispatchNext]_vars

\* -------------------------------------------------- the link in the shell
\* The table the repl page installs when it is mounted (repl.py:201-212 and
\* 245-246): subscribers for 'connect', 'connect_err' and 'disconnect'; the
\* first of 'connect' and the one of 'connect_err' raise.
ReplHandlers ==
    [e \in {"connect", "connect_err", "disconnect"} |->
        IF e = "connect" THEN <<"q", "p">>
        ELSE IF e = "connect_err" THEN <<"y">> ELSE <<"r">>]

\* main(), repl.py:402-405: a new Deviceviii, the repl page mounted, no
\* bridge yet; reconnect and read_forever come next
LinkInit ==
    /\ is_open = [b \in Bridges |-> FALSE]
    /\ thread = [b \in Bridges |-> 0]
    /\ stop_event = [b \in Bridges |-> FALSE]
    /\ event_loop = [b \in Bridges |-> 0]
    /\ read_queue = [b \in Bridges |-> <<>>]
    /\ write_queue = [b \in Bridges |-> <<>>]
    /\ tBridge = [t \in Threads |-> 0]
    /\ ioPc = [t \in Threads |-> "none"]
    /\ senderPc = [t \in Threads |-> "none"]
    /\ receiverPc = [t \in Threads |-> "none"]
    /\ conn = [t \in Threads |-> "none"]
    /\ serial = 0
    /\ is_connected = FALSE
    /\ mainPc = "idle"
    /\ op = NoOp
    /\ calls = 0
    /\ pumpPc = "running"
    /\ written = [b \in Bridges |-> <<>>]
    /\ passed = [b \in Bridges |-> <<>>]
    /\ arrived = [b \in Bridges |-> <<>>]
    /\ returned = [b \in Bridges |-> <<>>]
    /\ event_handlers = ReplHandlers
    /\ dispatched = <<Installed("repl", 0)>>
    /\ raised = <<>>
    /\ opWrites = <<>>

\* the I/O threads, the remote end, the shell's reconnect and disconnect,
\* and the read pump
LinkNext ==
    \/ \E t \in Threads : IOStep(t)
    \/ \E t \in Threads : RemoteClose(t)
    \/ \E e \in BOOLEAN : Reconnect(e)
    \/ OpenReturn
    \/ ReconnectFinish
    \/ Disconnect
    \/ PumpIteration

LinkSpec == LinkInit /\ [][LinkNext]_vars

\* The asyncio loop runs read_forever again after each of its sleeps, and a
\* call of reconnect() runs to its end
PumpFairness ==
    /\ WF_vars(PumpIteration)
    /\ WF_vars(OpenReturn)
    /\ WF_vars(ReconnectFinish)

LinkFairSpec == LinkSpec /\ IOFairness /\ PumpFairness

\* the client's call that has just been made is a write() / a close() /
\* an open() on the bridge
WriteStep == op'.kind = "bwrite" /\ calls' = calls + 1
CloseStep == op'.kind = "close" /\ calls' = calls + 1
OpenStep == op'.kind = "open" /\ calls' = calls + 1

\* C11: write(data) on a bridge that is not open fails with SerialException
\* and leaves the outbound queue as it was; on an open bridge it appends
\* exactly one chunk, the bytes of data, to the outbound queue, returns their
\* number, and returns at once.
C11_WriteContract ==
    [][WriteStep =>
         /\ mainPc' = "idle"
         /\ IF ~is_open[serial]
            THEN op'.result = "SerialException" /\ write_queue' = write_queue
            ELSE /\ op'.result = "ok"
                 /\ op'.data \in {<<195, 169>>, <<1, 2>>}
                 /\ write_queue' = [write_queue EXCEPT ![serial] = Append(@, op'.data)]
                 /\ op'.idx = Len(op'.data)]_vars

\* C11 witness: a write of a str accepted while another chunk is still queued
C11_Witness ==
    /\ op.kind = "bwrite" /\ op.result = "ok" /\ op.data = <<195, 169>> /\ op.idx = 2
    /\ Len(write_queue[serial]) = 2

\* a write was refused as well
C11_RefusedWitness ==
    /\ op.kind = "bwrite" /\ op.result = "SerialException" /\ ~is_open[serial]
    /\ write_queue[serial] # <<>>

\* C12: read(maxBytes) never returns more than maxBytes bytes.
C12_ReadAtMostSize ==
    (op.kind = "bread" /\ op.result = "ok") => Len(op.data) <= op.idx

IsSuffix(p, q) == Len(p) <= Len(q) /\ SubSeq(q, Len(q) - Len(p) + 1, Len(q)) = p

\* C13: on every bridge the bytes returned by read so far, followed by the
\* bytes still queued, are the bytes received from the wire in arrival order,
\* and the chunks still queued are the last chunks received, whole and in
\* arrival order: what read has returned is a prefix of what arrived, made of
\* whole chunks, each delivered once.
C13_InboundOrder ==
    \A b \in Bridges :
        /\ Flatten(arrived[b]) = returned[b] \o Flatten(read_queue[b])
        /\ IsSuffix(read_queue[b], arrived[b])

\* C13 witness: of two different chunks received, read(1) has returned the
\* first and the second is still queued
C13_Witness ==
    /\ Len(arrived[serial]) = 2
    /\ arrived[serial][1] # arrived[serial][2]
    /\ op.kind = "bread" /\ op.idx = 1 /\ op.data = arrived[serial][1]
    /\ returned[serial] = arrived[serial][1]
    /\ read_queue[serial] = <<arrived[serial][2]>>

\* the connections of bridge b that have been made and not closed
LiveConnections(b) == {t \in Threads : tBridge[t] = b /\ conn[t] = "up"}

\* the I/O threads of bridge b that are starting, connecting or running
LiveThreads(b) == {t \in Threads : tBridge[t] = b /\ ioPc[t] \in {"start", "connecting", "running"}}

\* C14: after any sequence of open() and close() calls a bridge has at most
\* one live connection.
C14_OneLiveConnection ==
    \A b \in Bridges : Cardinality(LiveConnections(b)) <= 1

\* C14, the first half: open() on a bridge that is open, or whose thread
\* has been started and not forgotten, changes nothing
C14_OpenNoOp ==
    [][(OpenStep /\ (is_open[serial] \/ thread[serial] # 0))
          => UNCHANGED <<bridgeVars, threadVars>>]_vars

\* C15: once close() has returned, and until the next call on the bridge,
\* is_open() is false and no pump of the bridge runs.
C15_CloseEffective ==
    (op.kind = "close" /\ mainPc = "idle")
        => /\ ~is_open[serial]
           /\ \A t \in Threads : tBridge[t] = serial => ioPc[t] # "running"

\* C15, the second close: close() right after close() changes nothing
C15_SecondCloseNoOp ==
    [][(CloseStep /\ op.kind = "close") => UNCHANGED <<bridgeVars, threadVars>>]_vars

\* the table installed when the k-th raise_event was made: the one of the
\* last replace_handlers before it, the empty table of __init__ if none
InstalledBefore(k) ==
    {i \in 1..Len(dispatched) : dispatched[i].kind = "replace" /\ dispatched[i].call < k}
TableNameAt(k) ==
    IF InstalledBefore(k) = {} THEN ""
    ELSE dispatched[CHOOSE i \in InstalledBefore(k) : \A j \in InstalledBefore(k) : j <= i].table
TableAt(k) == IF TableNameAt(k) = "" THEN [e \in {} |-> <<>>] ELSE Tables[TableNameAt(k)]

\* the subscribers a table registers for an event, in registration order
Registered(table, event) == IF event \in DOMAIN table THEN table[event] ELSE <<>>

\* the subscribers invoked for the k-th raise_event, in order
InvokedFor(k) ==
    LET es == SelectSeq(dispatched, LAMBDA x : x.kind = "invoke" /\ x.call = k)
    IN  [i \in 1..Len(es) |-> es[i].handler]

\* C16: every raise_event has invoked the subscribers registered for its
\* event, each once and in registration order, those after a subscriber that
\* raised included, and none when the event has no subscriber; the call
\* returns normally.
C16_DispatchAll ==
    /\ \A k \in 1..Len(raised) : InvokedFor(k) = Registered(TableAt(k), raised[k].name)
    /\ op.kind = "raise_event" => (op.result = "ok" /\ mainPc = "idle")

\* C16 witness: of three subscribers the second raised and the third was
\* invoked after it
C16_Witness ==
    /\ op.kind = "raise_event" /\ op.event = "connect"
    /\ Len(dispatched) >= 3
    /\ dispatched[Len(dispatched) - 1].handler = "q"
    /\ dispatched[Len(dispatched) - 1].raises
    /\ dispatched[Len(dispatched)].handler = "r"
    /\ dispatched[Len(dispatched)].call = Len(raised)

\* an event without subscribers was raised under a table that has others
C16_NoSubscriberWitness ==
    /\ op.kind = "raise_event" /\ op.event = "disconnect"
    /\ event_handlers = Tables["T1"]
    /\ InvokedFor(Len(raised)) = <<>>

\* C17: the table in place is the one last passed to replace_handlers, and
\* every subscriber invoked for an event raised after replace_handlers(T2) is
\* registered for that event in T2 and in no other table.
C17_OnlyNewTable ==
    /\ event_handlers = TableAt(Len(raised) + 1)
    /\ \A i \in 1..Len(dispatched) :
          dispatched[i].kind = "invoke" =>
              /\ \E j \in 1..Len(Registered(TableAt(dispatched[i].call), raised[dispatched[i].call].name)) :
                    Registered(TableAt(dispatched[i].call), raised[dispatched[i].call].name)[j]
                        = dispatched[i].handler
              /\ \A n \in DOMAIN Tables :
                    n # TableNameAt(dispatched[i].call)
                        => \A e \in DOMAIN Tables[n] : \A j \in 1..Len(Tables[n][e]) :
                              Tables[n][e][j] # dispatched[i].handler

\* C17 witness: an event was raised under T1, T2 was installed, and the same
\* event raised again has invoked T2's subscribers
C17_Witness ==
    /\ Len(raised) = 2 /\ raised[1].name = "connect" /\ raised[2].name = "connect"
    /\ InvokedFor(1) = <<"p", "q", "r">>
    /\ InvokedFor(2) = <<"x", "y">>
    /\ event_handlers = Tables["T2"]

\* '^^' occurs in the line
HasMarker(line) == \E i \in 1..(Len(line) - 1) : line[i] = 94 /\ line[i + 1] = 94

\* C18: for a line without '^^', process_line raises exactly one
\* 'iii_output' carrying the line as it is when the line is non-empty, and
\* nothing when it is empty.
C18_PlainOutput ==
    (op.kind = "process_line" /\ ~HasMarker(op.data)) =>
        raised = IF op.data = <<>> THEN <<>>
                 ELSE <<[name |-> "iii_output", args |-> <<op.data>>]>>

\* C18 witness: the line 'a^( ' with one caret, a parenthesis and a
\* trailing space went out whole
C18_Witness ==
    /\ op.kind = "process_line" /\ op.data = <<97, 94, 40, 32>>
    /\ Len(raised) = 1 /\ raised[1].name = "iii_output"

\* the empty line raised nothing
C18_EmptyWitness == op.kind = "process_line" /\ op.data = <<>> /\ raised = <<>>

\* a text without its leading and trailing spaces
RECURSIVE Trimmed(_)
Trimmed(s) ==
    IF s = <<>> THEN <<>>
    ELSE IF s[1] = 32 THEN Trimmed(Tail(s))
    ELSE IF s[Len(s)] = 32 THEN Trimmed(SubSeq(s, 1, Len(s) - 1))
    ELSE s

\* the place of the first '(' of a segment, 0 when it has none
FirstParen(seg) ==
    IF \E i \in 1..Len(seg) : seg[i] = 40
    THEN CHOOSE i \in 1..Len(seg) : seg[i] = 40 /\ \A j \in 1..(i - 1) : seg[j] # 40
    ELSE 0

\* the text of a segment before its first '(' and the text after it
NameText(seg) == IF FirstParen(seg) = 0 THEN seg ELSE SubSeq(seg, 1, FirstParen(seg) - 1)
ArgText(seg) == IF FirstParen(seg) = 0 THEN <<>> ELSE SubSeq(seg, FirstParen(seg) + 1, Len(seg))

\* a text with one trailing ')' removed if it has one
DropParen(s) == IF s # <<>> /\ s[Len(s)] = 41 THEN SubSeq(s, 1, Len(s) - 1) ELSE s

\* C19 as claimed, for one segment (taken without the whitespace around
\* it): none for an empty segment, else one 'iii_event' with the line, the
\* trimmed name and the arguments
C19_SegmentEvent(line, seg) ==
    IF Trimmed(seg) = <<>> THEN <<>>
    ELSE <<[name |-> "iii_event",
            args |-> <<line, Trimmed(NameText(Trimmed(seg))),
                       Split(DropParen(ArgText(Trimmed(seg))), <<44>>)>>]>>

RECURSIVE C19_SegmentsEvents(_, _)
C19_SegmentsEvents(line, segs) ==
    IF segs = <<>> THEN <<>>
    ELSE C19_SegmentEvent(line, Head(segs)) \o C19_SegmentsEvents(line, Tail(segs))

\* C19: for a line with '^^', process_line raises, in segment order, one
\* 'iii_event' per non-empty segment, with the whole line, the trimmed text
\* before the segment's first '(' as name, and as arguments the rest with
\* one trailing ')' removed, split on commas.
C19_StructuredEvents ==
    (op.kind = "process_line" /\ HasMarker(op.data)) =>
        raised = C19_SegmentsEvents(op.data, Split(op.data, <<94, 94>>))

\* the segments of a line whose name and argument text are not both empty
C20_KeptSegments(line) ==
    {i \in 1..Len(Split(line, <<94, 94>>)) :
        ~(/\ Trimmed(NameText(Split(line, <<94, 94>>)[i])) = <<>>
          /\ Trimmed(ArgText(Split(line, <<94, 94>>)[i])) = <<>>)}

\* C20: for a line with '^^', process_line raises an 'iii_event' for no
\* segment whose name and argument text are both empty, and so at most one
\* event per other segment; '^^clear()' gives the one event ('clear', ['']).
C20_EmptySegmentsDropped ==
    (op.kind = "process_line" /\ HasMarker(op.data)) =>
        /\ Len(raised) <= Cardinality(C20_KeptSegments(op.data))
        /\ op.data = <<94, 94, 99, 108, 101, 97, 114, 40, 41>> =>
              raised = <<[name |-> "iii_event",
                          args |-> <<op.data, <<99, 108, 101, 97, 114>>, << <<>> >> >>]>>

\* the shell's call that has just been made is disconnect()
DisconnectStep == op'.kind = "disconnect" /\ calls' = calls + 1

\* C21: disconnect() sets is_connected to false; with a bridge it closes it
\* (the stop signal is set if the bridge was open or had a thread, and the
\* bridge is left not open and without a thread); without a bridge nothing
\* else changes; it raises no event, invokes no subscriber and leaves the
\* handler table as it was.
C21_DisconnectEffect ==
    [][DisconnectStep =>
         /\ ~is_connected'
         /\ serial' = serial
         /\ serial # 0 =>
               /\ ~is_open'[serial] /\ thread'[serial] = 0
               /\ (is_open[serial] \/ thread[serial] # 0) => stop_event'[serial]
               /\ \A b \in Bridges \ {serial} :
                     /\ is_open'[b] = is_open[b] /\ thread'[b] = thread[b]
                     /\ stop_event'[b] = stop_event[b]
         /\ serial = 0 => (bridgeVars' = bridgeVars /\ threadVars' = threadVars)
         /\ raised' = <<>>
         /\ dispatched' = dispatched
         /\ event_handlers' = event_handlers]_vars

\* C21 witness: disconnect() was called on a connected link and closed its
\* bridge, the repl's table still installed
C21_Witness ==
    /\ op.kind = "disconnect" /\ serial # 0
    /\ stop_event[serial] /\ ~is_open[serial] /\ thread[serial] = 0
    /\ ~is_connected
    /\ \E i \in 1..Len(dispatched) : dispatched[i].kind = "invoke"
    /\ event_handlers = ReplHandlers

\* disconnect() was called on a link without a bridge
C21_NoBridgeWitness == op.kind = "disconnect" /\ serial = 0 /\ ~is_connected

\* the pump's call of reconnect() is under way
PumpReconnecting == op.kind = "pump" /\ mainPc \in {"open_wait", "opened"}

\* C22: read_forever never ends on its own: it is running in every state,
\* no exception has left a reconnect() it called, a reconnect() it called
\* can always go on to its end, and whenever the consumer thread is idle
\* (after every iteration, successful or failed) another iteration can run
\* (as long as one more bridge may be constructed).
C22_PumpNeverExits ==
    /\ pumpPc = "running"
    /\ op.kind = "pump" => op.result \in {"running", "failed", "connected", "not_open"}
    /\ (PumpReconnecting /\ mainPc = "open_wait") => ENABLED OpenReturn
    /\ (PumpReconnecting /\ mainPc = "opened") => ENABLED ReconnectFinish
    /\ (mainPc = "idle" /\ serial < MaxBridges) => ENABLED PumpIteration

\* C22 witness: a read returned bytes that are no UTF-8 on a connected link,
\* the pump's reconnect failed, the subscriber of 'connect_err' raised, and
\* the pump is running and idle again
C22_Witness ==
    /\ op.kind = "pump" /\ op.data # <<>> /\ op.was_connected
    /\ op.result = "failed" /\ mainPc = "idle" /\ pumpPc = "running"
    /\ raised = <<[name |-> "connect_err", args |-> <<"SerialException">>]>>
    /\ dispatched[Len(dispatched)].handler = "y" /\ dispatched[Len(dispatched)].raises

\* the bridge's read raised, the pump's reconnect succeeded, the first
\* subscriber of 'connect' raised and the second was invoked after it
C22_ReadFailureWitness ==
    /\ op.kind = "pump" /\ op.data = <<>>
    /\ op.result = "connected" /\ mainPc = "idle" /\ pumpPc = "running"
    /\ Len(dispatched) >= 2
    /\ dispatched[Len(dispatched) - 1].handler = "q" /\ dispatched[Len(dispatched) - 1].raises
    /\ dispatched[Len(dispatched)].handler = "p"

\* the link is connected through bridge b and the remote end has closed the
\* connection of b's running I/O thread
TransportFailed(b) ==
    /\ serial = b /\ is_connected
    /\ \E t \in Threads : tBridge[t] = b /\ ioPc[t] = "running" /\ conn[t] = "closed"

\* C23: when the link is connected and the remote end closes the connection,
\* a reconnect follows (the link constructs its next bridge), as long as one
\* more bridge may be constructed.
C23_Recovery ==
    \A b \in 1..(MaxBridges - 1) : TransportFailed(b) ~> (serial # b)

\* C24: whenever the link constructs a new bridge (connect(), reached from
\* the pump or from an explicit reconnect()), every bridge it constructed
\* before is not open and has no I/O thread starting, connecting or running.
C24_OneLiveBridge ==
    [][serial' # serial =>
         \A b \in 1..serial : ~is_open[b] /\ LiveThreads(b) = {}]_vars

\* C25: once the open() of a reconnect attempt has failed with the
\* connection error, the bridge it was called on (still self.serial: no
\* close() or open() has been called on it since) is not open; is_connected
\* being false after a failed attempt, the link then holds no open bridge
\* while is_connected is false.
C25_FailedOpenStaysClosed ==
    (AttemptOp /\ mainPc = "idle" /\ op.result = "failed") => ~is_open[serial]

====
